---- MODULE Spec2Model ----
(***************************************************************************)
(* A state-machine model of plot_scenarios.py: the script that reads four  *)
(* scenario CSV files, draws a 2x2 grid of dual-axis line charts plus a    *)
(* description panel on one shared figure, and saves the figure as         *)
(* cultivation_scenarios.png.                                              *)
(*                                                                         *)
(* The working directory is the variable fs (file name -> content); the    *)
(* process is pc, idx, df, fig and err.  One action models one block of    *)
(* the script; an exception raised by a block ends the run in pc =         *)
(* "failed", since the script has no try/except.                           *)
(***************************************************************************)
EXTENDS Integers, Sequences, FiniteSets, TLC

VARIABLES
    fs,          \* the working directory: file name -> file content
    pc,          \* the position of the script
    idx,         \* the loop variable of `for idx, ... in enumerate(scenarios)` (1-based here)
    df,          \* the DataFrame of the current scenario (the content read by pd.read_csv)
    fig,         \* the shared figure: the four chart axes and the description axes
    err,         \* the exception that ended the run, "" when none
    run,         \* which invocation of the script this is
    reads,       \* per scenario: the pd.read_csv calls made on its file in this run
    writes,      \* per file name: the writes made to it in this run
    fs0,         \* the working directory when this run started
    exit0,       \* how the previous run ended ("none" for the first run)
    tick_axis,   \* the y-axis a tick label is drawn for: "primary" or "twin"
    tick,        \* the raw tick value handed to the axis' formatter
    tick_label   \* the label drawn for it, "" while not drawn

vars == <<fs, pc, idx, df, fig, err, run, reads, writes, fs0, exit0,
          tick_axis, tick, tick_label>>

procVars == <<pc, idx, df, fig, err>>
tickVars == <<tick_axis, tick, tick_label>>

(***************************************************************************)
(* Bounds of the model.                                                    *)
(***************************************************************************)
MaxRuns == 2     \* invocations of the script in one behaviour
MaxRows == 2     \* rows of a generated CSV
MaxVal  == 2     \* magnitude of a generated cultivation_factor / prev_temp value
MaxTick == 60    \* generated tick values are k * TickStep for |k| <= MaxTick

(***************************************************************************)
(* The fixed inputs of the script.                                         *)
(***************************************************************************)
NumScenarios == 4

scenarios ==
    << [file  |-> "cultivation_factor_scenario1.csv",
        title |-> "Scenario 1: Single User Demand",
        description |-> "User sows at 100% temp limit order with maximum capacity.\nCF rises initially, then stays flat until temp returns to 100%."],
       [file  |-> "cultivation_factor_scenario2.csv",
        title |-> "Scenario 2: High to Low Demand",
        description |-> "User1 sows at 100% temp with high capacity, then User2 sows at 90% with lower capacity.\nCF rises initially, then decreases to match User2's capacity."],
       [file  |-> "cultivation_factor_scenario3.csv",
        title |-> "Scenario 3: Continuous High Demand",
        description |-> "User1 sows at high temp with max capacity, then User2 sows at lower temp.\nCF continues to rise despite lower temp due to maintained high capacity."],
       [file  |-> "cultivation_factor_scenario4.csv",
        title |-> "Scenario 4: Stable Temperature",
        description |-> "Constant temperature scenario testing CF behavior.\nCF increases when soil sells out, decreases when it doesn't."] >>

Scenarios == 1..NumScenarios

InputFile(i) == scenarios[i].file

InputFiles == {InputFile(i) : i \in Scenarios}

OutputFile == "cultivation_scenarios.png"

\* A file of the working directory the script never names.
OtherFile == "notes.txt"

FileNames == InputFiles \cup {OutputFile, OtherFile}

Columns == {"iteration", "cultivation_factor", "prev_temp"}

(***************************************************************************)
(* File contents.                                                          *)
(***************************************************************************)
Absent == [kind |-> "absent"]

\* A CSV file: its header (DOMAIN columns) and, per column, the values in row order.
Csv(columns) == [kind |-> "csv", columns |-> columns]

OtherContent == [kind |-> "text"]

SaveDpi == 300

\* What plt.savefig(..., dpi=300, bbox_inches='tight') renders of a figure.
Png(figure) == [kind |-> "png", dpi |-> SaveDpi, bbox_inches |-> "tight", figure |-> figure]

\* An image left by something else than this version of the script.
OldPng == Png([created |-> FALSE])

HasColumn(frame, c) == c \in DOMAIN frame.columns

\* The number of rows of a DataFrame.
NRows(frame) ==
    IF DOMAIN frame.columns = {} THEN 0
    ELSE Len(frame.columns[CHOOSE c \in DOMAIN frame.columns : TRUE])

WellFormed(content) ==
    /\ content.kind = "csv"
    /\ Columns \subseteq DOMAIN content.columns

(***************************************************************************)
(* Integer helpers.                                                        *)
(***************************************************************************)
Abs(x) == IF x < 0 THEN 0 - x ELSE x

RECURSIVE SeqMax(_)
\* Python's max() over a non-empty column.
SeqMax(s) ==
    IF Len(s) = 1 THEN s[1]
    ELSE LET m == SeqMax(Tail(s)) IN IF s[1] > m THEN s[1] ELSE m

RECURSIVE SeqMin(_)
\* Python's min() over a non-empty column.
SeqMin(s) ==
    IF Len(s) = 1 THEN s[1]
    ELSE LET m == SeqMin(Tail(s)) IN IF s[1] < m THEN s[1] ELSE m

(***************************************************************************)
(* The tick formatter: f'{x/1e6:.1f}%'.                                    *)
(***************************************************************************)
RawPerPercent == 1000000

\* Raw units per displayed tenth of a percent.
RawPerTenth == RawPerPercent \div 10

\* x/1e6 is an IEEE-754 double and '.1f' rounds its exact binary value to the
\* nearest tenth, ties to even.  For |x| = q * 100000 + 50000 the decimal value
\* lies midway between two tenths, and the result depends on the side the
\* double falls on (or, where q/10 + 0.05 is exact in binary, on the parity of
\* q).  These are the q below 60 (|x| < 6,000,000) for which '.1f' gives q + 1.
MidpointRoundsUp ==
    {0, 4, 5, 6, 7, 10, 13, 15, 17, 18, 23, 24, 27, 28, 29, 33, 34, 37, 38, 39,
     41, 44, 46, 47, 49, 51, 54, 56, 57, 59}

\* |x|/1e6 in tenths, rounded as '.1f' rounds it (x is an integer raw value).
RoundTenths(a) ==
    LET q == a \div RawPerTenth
        r == a % RawPerTenth
    IN  IF 2 * r < RawPerTenth THEN q
        ELSE IF 2 * r > RawPerTenth THEN q + 1
        ELSE IF q \in MidpointRoundsUp THEN q + 1 ELSE q

\* Mutant: the value is scaled by 1e4 instead of 1e6.
percentage_formatter_1e4(x) ==
    LET t == (Abs(x) + 500) \div 1000
    IN  (IF x < 0 THEN "-" ELSE "") \o ToString(t \div 10) \o "." \o ToString(t % 10) \o "%"

percentage_formatter(x) ==
    LET t == RoundTenths(Abs(x))
    IN  (IF x < 0 THEN "-" ELSE "") \o ToString(t \div 10) \o "." \o ToString(t % 10) \o "%"

\* The label an axis draws for tick value x with the formatter installed on it;
\* an axis left with matplotlib's default formatter prints the plain number.
ApplyFormatter(name, x) ==
    IF name = "percentage_formatter" THEN percentage_formatter(x) ELSE ToString(x)

(***************************************************************************)
(* The figure.                                                             *)
(***************************************************************************)
NoFigure == [created |-> FALSE]

AutoLimits == [auto |-> TRUE, lo |-> 0, hi |-> 0]

\* gs[0, 0], gs[0, 1], gs[1, 0], gs[1, 1]: the i-th chart axes sits at
\* (row, column) of the grid.
GridPos(i) == << (i - 1) \div 2, (i - 1) % 2 >>

EmptyAxes(i) ==
    [ gridpos         |-> GridPos(i),
      lines           |-> << >>,
      has_twin        |-> FALSE,
      twin_lines      |-> << >>,
      yformatter      |-> "ScalarFormatter",
      twin_yformatter |-> "ScalarFormatter",
      xlabel          |-> "",
      ylabel          |-> "",
      twin_ylabel     |-> "",
      title           |-> "",
      legend          |-> << >>,
      grid            |-> FALSE,
      ylim            |-> AutoLimits,
      twin_ylim       |-> AutoLimits ]

NewFigure ==
    [ created  |-> TRUE,
      suptitle |-> "Cultivation Factor and Temperature Scenarios",
      axes     |-> [i \in Scenarios |-> EmptyAxes(i)],
      desc_ax  |-> [text |-> "", axis |-> "on"] ]

\* ax.plot(df['iteration'], df['cultivation_factor'], 'o-', label=..., linewidth=2)
Line1(frame) ==
    [ label |-> "Cultivation Factor", fmt |-> "o-", color |-> "default",
      xs |-> frame.columns["iteration"], ys |-> frame.columns["cultivation_factor"] ]

\* ax2.plot(df['iteration'], df['prev_temp'], 's--', label=..., linewidth=2, color='red')
Line2(frame) ==
    [ label |-> "Temperature", fmt |-> "s--", color |-> "red",
      xs |-> frame.columns["iteration"], ys |-> frame.columns["prev_temp"] ]

\* ax2 = ax.twinx(); line1 = ax.plot(...): the series goes on the primary axis.
PlotPrimary(ax, line) == [ax EXCEPT !.has_twin = TRUE, !.lines = Append(@, line)]

\* Mutant: the temperature series is drawn on ax instead of ax2.
PlotTwin_OnPrimary(ax, line) == [ax EXCEPT !.lines = Append(@, line)]

\* line2 = ax2.plot(...): the series goes on the twin axis.
PlotTwin(ax, line) == [ax EXCEPT !.twin_lines = Append(@, line)]

\* Formatters, labels, title, combined legend and grid of one chart.
Decorate(ax, title) ==
    [ax EXCEPT !.yformatter      = "percentage_formatter",
               !.twin_yformatter = "percentage_formatter",
               !.xlabel          = "Season",
               !.ylabel          = "Cultivation Factor",
               !.twin_ylabel     = "Temperature",
               !.title           = title,
               !.legend          = [k \in 1..(Len(ax.lines) + Len(ax.twin_lines)) |->
                                        IF k <= Len(ax.lines) THEN ax.lines[k].label
                                        ELSE ax.twin_lines[k - Len(ax.lines)].label],
               !.grid            = TRUE]

\* Axis limits are kept in hundredths of a raw unit, so that the factors 1.1,
\* 0.99 and 1.01 of the script are the integers 110, 99 and 101.

\* Mutant: the upper limit is 0.9 * max.
YLimPrimary_Low(ys) == [auto |-> FALSE, lo |-> 0, hi |-> 90 * SeqMax(ys)]

\* ax.set_ylim(0, max(df['cultivation_factor']) * 1.1)
YLimPrimary(ys) == [auto |-> FALSE, lo |-> 0, hi |-> 110 * SeqMax(ys)]

\* ax2.set_ylim(min(df['prev_temp']) * 0.99, max(df['prev_temp']) * 1.01)
YLimTwin(ys) == [auto |-> FALSE, lo |-> 99 * SeqMin(ys), hi |-> 101 * SeqMax(ys)]

RECURSIVE JoinDescriptions(_)
\* '\n\n'.join([f"{title}:\n{desc}" for _, title, desc in scenarios])
JoinDescriptions(i) ==
    LET one == scenarios[i].title \o ":\n" \o scenarios[i].description
    IN  IF i = NumScenarios THEN one ELSE one \o "\n\n" \o JoinDescriptions(i + 1)

desc_text == JoinDescriptions(1)

\* Mutant: the file is opened for appending.
WriteFile_Append(old, new) == IF old = Absent THEN new ELSE [kind |-> "png", first |-> old, then |-> new]

\* Writing a file replaces whatever the name held.
WriteFile(old, new) == new

\* Mutant: the loop is left after the third scenario.
AfterLimits_OffByOne(i) == IF i < NumScenarios - 1 THEN "read_csv" ELSE "describe"

\* The end of the loop body: the next scenario, or the code after the loop.
AfterLimits(i) == IF i < NumScenarios THEN "read_csv" ELSE "describe"

(***************************************************************************)
(* The script, block by block.                                             *)
(***************************************************************************)
\* Mutant: the exception is caught in the loop body and the loop goes on with
\* the next scenario.
Raise_Continue(e) ==
    /\ pc' = AfterLimits(idx)
    /\ idx' = IF idx < NumScenarios THEN idx + 1 ELSE idx
    /\ err' = e
    /\ UNCHANGED <<df, fig, fs, writes>>

\* An uncaught exception: the interpreter exits, nothing after the raising
\* statement runs.
Raise(e) ==
    /\ pc' = "failed"
    /\ err' = e
    /\ UNCHANGED <<idx, df, fig, fs, writes>>

\* Mutant: the output file is opened (and so truncated) before the figure is built.
CreateFigure_Truncating ==
    /\ pc = "figure"
    /\ fig' = NewFigure
    /\ idx' = 1
    /\ pc' = "read_csv"
    /\ fs' = [fs EXCEPT ![OutputFile] = [kind |-> "png", truncated |-> TRUE]]
    /\ UNCHANGED <<df, err, run, reads, writes, fs0, exit0, tickVars>>

\* fig = plt.figure(...); the grid, the four chart axes, desc_ax, the suptitle;
\* then the loop is entered with its first scenario.
CreateFigure ==
    /\ pc = "figure"
    /\ fig' = NewFigure
    /\ idx' = 1
    /\ pc' = "read_csv"
    /\ UNCHANGED <<fs, df, err, run, reads, writes, fs0, exit0, tickVars>>

\* Mutant: a missing file is skipped (as under try/except) instead of ending the run.
ReadCsv_SkipMissing ==
    /\ pc = "read_csv"
    /\ reads' = [reads EXCEPT ![idx] = @ + 1]
    /\ IF fs[InputFile(idx)] = Absent
       THEN /\ pc' = AfterLimits(idx)
            /\ idx' = IF idx < NumScenarios THEN idx + 1 ELSE idx
            /\ UNCHANGED <<df, err, fig, fs, writes>>
       ELSE /\ df' = fs[InputFile(idx)]
            /\ pc' = "plot_cf"
            /\ UNCHANGED <<idx, fig, err, fs, writes>>
    /\ UNCHANGED <<run, fs0, exit0, tickVars>>

\* df = pd.read_csv(file)
ReadCsv ==
    /\ pc = "read_csv"
    /\ reads' = [reads EXCEPT ![idx] = @ + 1]
    /\ IF fs[InputFile(idx)] = Absent
       THEN Raise("FileNotFoundError")
       ELSE /\ df' = fs[InputFile(idx)]
            /\ pc' = "plot_cf"
            /\ UNCHANGED <<idx, fig, err, fs, writes>>
    /\ UNCHANGED <<run, fs0, exit0, tickVars>>

\* ax = axes[idx]; ax2 = ax.twinx(); line1 = ax.plot(df['iteration'],
\* df['cultivation_factor'], ...): either lookup raises KeyError on a missing column.
PlotCultivationFactor ==
    /\ pc = "plot_cf"
    /\ IF HasColumn(df, "iteration") /\ HasColumn(df, "cultivation_factor")
       THEN /\ fig' = [fig EXCEPT !.axes[idx] = PlotPrimary(@, Line1(df))]
            /\ pc' = "plot_temp"
            /\ UNCHANGED <<idx, df, err, fs, writes>>
       ELSE Raise("KeyError")
    /\ UNCHANGED <<run, reads, fs0, exit0, tickVars>>

\* line2 = ax2.plot(df['iteration'], df['prev_temp'], ...)
PlotTemperature ==
    /\ pc = "plot_temp"
    /\ IF HasColumn(df, "iteration") /\ HasColumn(df, "prev_temp")
       THEN /\ fig' = [fig EXCEPT !.axes[idx] = PlotTwin(@, Line2(df))]
            /\ pc' = "decorate"
            /\ UNCHANGED <<idx, df, err, fs, writes>>
       ELSE Raise("KeyError")
    /\ UNCHANGED <<run, reads, fs0, exit0, tickVars>>

\* set_major_formatter on both y-axes, the labels, the title, the legend, the grid.
DecorateAxes ==
    /\ pc = "decorate"
    /\ fig' = [fig EXCEPT !.axes[idx] = Decorate(@, scenarios[idx].title)]
    /\ pc' = "set_ylim"
    /\ UNCHANGED <<idx, df, err, fs, writes>>
    /\ UNCHANGED <<run, reads, fs0, exit0, tickVars>>

\* ax.set_ylim(0, max(...) * 1.1); ax2.set_ylim(min(...) * 0.99, max(...) * 1.01):
\* a column lookup raises KeyError, max() of an empty column raises ValueError.
\* Then the loop goes on with the next scenario or ends.
SetYLimits ==
    /\ pc = "set_ylim"
    /\ IF ~HasColumn(df, "cultivation_factor") THEN Raise("KeyError")
       ELSE IF NRows(df) = 0 THEN Raise("ValueError")
       ELSE IF ~HasColumn(df, "prev_temp") THEN Raise("KeyError")
       ELSE /\ fig' = [fig EXCEPT
                         !.axes[idx].ylim = YLimPrimary(df.columns["cultivation_factor"]),
                         !.axes[idx].twin_ylim = YLimTwin(df.columns["prev_temp"])]
            /\ pc' = AfterLimits(idx)
            /\ idx' = IF idx < NumScenarios THEN idx + 1 ELSE idx
            /\ UNCHANGED <<df, err, fs, writes>>
    /\ UNCHANGED <<run, reads, fs0, exit0, tickVars>>

\* desc_ax.text(0.02, 0.5, desc_text, ...); desc_ax.axis('off')
RenderDescriptions ==
    /\ pc = "describe"
    /\ fig' = [fig EXCEPT !.desc_ax = [text |-> desc_text, axis |-> "off"]]
    /\ pc' = "savefig"
    /\ UNCHANGED <<idx, df, err, fs, writes>>
    /\ UNCHANGED <<run, reads, fs0, exit0, tickVars>>

\* Mutant: a copy of the image is saved under a second name as well.
SaveFig_WithCopy ==
    /\ pc = "savefig"
    /\ fs' = [fs EXCEPT ![OutputFile] = WriteFile(@, Png(fig)),
                        ![OtherFile] = WriteFile(@, Png(fig))]
    /\ writes' = [writes EXCEPT ![OutputFile] = @ + 1, ![OtherFile] = @ + 1]
    /\ pc' = "close"
    /\ UNCHANGED <<idx, df, fig, err>>
    /\ UNCHANGED <<run, reads, fs0, exit0, tickVars>>

\* plt.tight_layout(); plt.savefig('cultivation_scenarios.png', dpi=300, bbox_inches='tight')
SaveFig ==
    /\ pc = "savefig"
    /\ fs' = [fs EXCEPT ![OutputFile] = WriteFile(@, Png(fig))]
    /\ writes' = [writes EXCEPT ![OutputFile] = @ + 1]
    /\ pc' = "close"
    /\ UNCHANGED <<idx, df, fig, err>>
    /\ UNCHANGED <<run, reads, fs0, exit0, tickVars>>

\* plt.close(): the figure is released and the script ends, exit status 0.
Close ==
    /\ pc = "close"
    /\ fig' = NoFigure
    /\ pc' = "done"
    /\ UNCHANGED <<idx, df, err, fs, writes>>
    /\ UNCHANGED <<run, reads, fs0, exit0, tickVars>>

Terminated == pc \in {"done", "failed"}

NoFrame == [kind |-> "none"]

NoReads == [i \in Scenarios |-> 0]

NoWrites == [f \in FileNames |-> 0]

\* The script is run again in a new process, on the working directory the
\* previous run left: nothing of the previous process is kept.
Rerun ==
    /\ Terminated
    /\ run < MaxRuns
    /\ run' = run + 1
    /\ pc' = "figure"
    /\ idx' = 0
    /\ df' = NoFrame
    /\ fig' = NoFigure
    /\ err' = ""
    /\ reads' = NoReads
    /\ writes' = NoWrites
    /\ fs0' = fs
    /\ exit0' = pc
    /\ UNCHANGED <<fs, tickVars>>

(***************************************************************************)
(* The working directories a run starts from.                              *)
(***************************************************************************)
\* A CSV with columns iteration, cultivation_factor, prev_temp from three
\* equally long sequences.
Frame(it, cf, pt) ==
    Csv([c \in Columns |-> IF c = "iteration" THEN it
                           ELSE IF c = "cultivation_factor" THEN cf ELSE pt])

\* The same CSV without column c.
DropColumn(content, c) ==
    Csv([d \in (DOMAIN content.columns) \ {c} |-> content.columns[d]])

SampleA == Frame(<<1, 2>>, <<0, 2>>, <<3, 1>>)

SampleB == Frame(<<1>>, <<1>>, <<2>>)

SampleC == Frame(<<3, 4>>, <<2, 1>>, <<0, 3>>)

HeaderOnly == Frame(<< >>, << >>, << >>)

\* One content of each kind the script tells apart: no file, a CSV lacking
\* one of the columns, a header without rows, and CSVs with rows.
InputChoices ==
    {Absent, HeaderOnly, SampleA, SampleB, SampleC}
        \cup {DropColumn(SampleA, c) : c \in Columns}

OutputChoices == {Absent, OldPng}

InitProcess ==
    /\ pc = "figure"
    /\ idx = 0
    /\ df = NoFrame
    /\ fig = NoFigure
    /\ err = ""
    /\ run = 1
    /\ reads = NoReads
    /\ writes = NoWrites
    /\ exit0 = "none"

NoTicks ==
    /\ tick_axis = "primary"
    /\ tick = 0
    /\ tick_label = ""

Directory(inputs, out) ==
    [f \in FileNames |->
        IF f = OutputFile THEN out
        ELSE IF f = OtherFile THEN OtherContent
        ELSE inputs[CHOOSE i \in Scenarios : InputFile(i) = f]]

Init ==
    /\ \E inputs \in [Scenarios -> InputChoices], out \in OutputChoices :
          fs = Directory(inputs, out)
    /\ fs0 = fs
    /\ InitProcess
    /\ NoTicks

Next ==
    \/ CreateFigure
    \/ ReadCsv
    \/ PlotCultivationFactor
    \/ PlotTemperature
    \/ DecorateAxes
    \/ SetYLimits
    \/ RenderDescriptions
    \/ SaveFig
    \/ Close
    \/ Rerun

Spec == Init /\ [][Next]_vars

(***************************************************************************)
(* One run over generated data: one scenario's CSV is any table of up to   *)
(* MaxRows rows over Values, the other three hold SampleB.                 *)
(***************************************************************************)
Values == {0 - 1, 0, 1, MaxVal}

GeneratedFrames ==
    UNION { { Frame([r \in 1..n |-> r], cf, pt) :
                 cf \in [1..n -> Values], pt \in [1..n -> Values] } : n \in 0..MaxRows }

InitLimits ==
    /\ \E k \in Scenarios, frame \in GeneratedFrames, out \in OutputChoices :
          fs = Directory([i \in Scenarios |-> IF i = k THEN frame ELSE SampleB], out)
    /\ fs0 = fs
    /\ InitProcess
    /\ NoTicks

NextLimits ==
    \/ CreateFigure
    \/ ReadCsv
    \/ PlotCultivationFactor
    \/ PlotTemperature
    \/ DecorateAxes
    \/ SetYLimits
    \/ RenderDescriptions
    \/ SaveFig
    \/ Close

SpecLimits == InitLimits /\ [][NextLimits]_vars

(***************************************************************************)
(* Tick labels: a y-axis of a decorated chart draws the label of one tick. *)
(***************************************************************************)
TickStep == RawPerTenth \div 2

\* The raw values of the documented scenario, at 1e4 and at 1e6 per percent.
ScenarioTicks ==
    {0, 500000, 1000000, 900000, 950000, 90000000, 95000000, 100000000}

TickDomain == {k * TickStep : k \in (0 - MaxTick)..MaxTick} \cup ScenarioTicks

\* The formatter the loop body installs on the given y-axis of a chart.
InstalledFormatter(axis) ==
    LET ax == Decorate(EmptyAxes(1), scenarios[1].title)
    IN  IF axis = "primary" THEN ax.yformatter ELSE ax.twin_yformatter

\* matplotlib calls the axis' major formatter with a tick value and draws
\* the string it returns.
DrawTick ==
    /\ tick_label = ""
    /\ tick_label' = ApplyFormatter(InstalledFormatter(tick_axis), tick)
    /\ UNCHANGED <<fs, procVars, run, reads, writes, fs0, exit0, tick_axis, tick>>

InitFmt ==
    /\ fs = Directory([i \in Scenarios |-> SampleB], Absent)
    /\ fs0 = fs
    /\ InitProcess
    /\ tick_axis \in {"primary", "twin"}
    /\ tick \in TickDomain
    /\ tick_label = ""

NextFmt == DrawTick

SpecFmt == InitFmt /\ [][NextFmt]_vars

(***************************************************************************)
(* Properties.                                                             *)
(***************************************************************************)
Range(s) == {s[k] : k \in DOMAIN s}

Missing(i) == fs[InputFile(i)] = Absent

LacksColumn(i) ==
    /\ fs[InputFile(i)].kind = "csv"
    /\ ~(Columns \subseteq DOMAIN fs[InputFile(i)].columns)

AllWellFormed == \A i \in Scenarios : WellFormed(fs[InputFile(i)])

\* The output file is what it was when the run started, and was not written.
OutputUntouched ==
    /\ writes[OutputFile] = 0
    /\ fs[OutputFile] = fs0[OutputFile]

\* The chart of scenario i is completely drawn from content: one series per
\* y-axis, both formatters, and both limits set.
Complete(ax, content) ==
    /\ Len(ax.lines) = 1
    /\ ax.lines[1].label = "Cultivation Factor"
    /\ ax.lines[1].xs = content.columns["iteration"]
    /\ ax.lines[1].ys = content.columns["cultivation_factor"]
    /\ ax.has_twin
    /\ Len(ax.twin_lines) = 1
    /\ ax.twin_lines[1].label = "Temperature"
    /\ ax.twin_lines[1].xs = content.columns["iteration"]
    /\ ax.twin_lines[1].ys = content.columns["prev_temp"]
    /\ ax.yformatter = "percentage_formatter"
    /\ ax.twin_yformatter = "percentage_formatter"
    /\ ~ax.ylim.auto
    /\ ~ax.twin_ylim.auto

\* C1: if any of the four input files is missing, the run never gets to the
\* code after the loop, ends (when it ends) as a failure, and the output file
\* is never written: it stays what it was before the run.
C1_MissingFileNoOutput ==
    (\E i \in Scenarios : Missing(i)) =>
        /\ pc \notin {"describe", "savefig", "close", "done"}
        /\ OutputUntouched

\* C1 witness: a run has failed on the last file being the missing one, with
\* an older image in place.
C1_Witness ==
    /\ pc = "failed"
    /\ err = "FileNotFoundError"
    /\ idx = NumScenarios
    /\ Missing(NumScenarios)
    /\ fs[OutputFile] = OldPng

\* C2 (as claimed): with four well-formed CSV files, of any number of rows,
\* the run does not fail, and once it has ended the output file was written
\* exactly once.
C2_WellFormedSucceeds ==
    AllWellFormed =>
        /\ pc # "failed"
        /\ (pc = "done" => writes[OutputFile] = 1 /\ fs[OutputFile].kind = "png")

\* The label of x under the rule "x/1,000,000 with one decimal and a percent
\* sign": some number of tenths within half a tenth of x/1e6, printed as
\* <tenths div 10>.<tenths mod 10>%.
IsPercentLabel(label, x) ==
    \E t \in 0..((Abs(x) \div 100000) + 1) :
        /\ 2 * Abs(Abs(x) - 100000 * t) <= 100000
        /\ label = (IF x < 0 THEN "-" ELSE "")
                      \o ToString(t \div 10) \o "." \o ToString(t % 10) \o "%"

\* C3 (as claimed): on either y-axis a drawn tick label is x/1,000,000 with
\* one decimal and '%'; on the cultivation-factor axis 0, 0.5e6 and 1.0e6 read
\* 0.0%, 0.5%, 1.0%, and on the temperature axis 90e4, 95e4, 100e4 read 90.0%,
\* 95.0%, 100.0%.
C3_Original ==
    tick_label # "" =>
        /\ IsPercentLabel(tick_label, tick)
        /\ (tick_axis = "primary" /\ tick = 0 => tick_label = "0.0%")
        /\ (tick_axis = "primary" /\ tick = 500000 => tick_label = "0.5%")
        /\ (tick_axis = "primary" /\ tick = 1000000 => tick_label = "1.0%")
        /\ (tick_axis = "twin" /\ tick = 900000 => tick_label = "90.0%")
        /\ (tick_axis = "twin" /\ tick = 950000 => tick_label = "95.0%")
        /\ (tick_axis = "twin" /\ tick = 1000000 => tick_label = "100.0%")

\* C3 (amended): on either y-axis a drawn tick label is x/1,000,000 with one
\* decimal and '%'; 0, 0.5e6 and 1.0e6 read 0.0%, 0.5%, 1.0%; 90e4, 95e4 and
\* 100e4 read 0.9%, 0.9%, 1.0%, and it is 90e6, 95e6 and 100e6 that read
\* 90.0%, 95.0%, 100.0%.
C3_Amended ==
    tick_label # "" =>
        /\ IsPercentLabel(tick_label, tick)
        /\ (tick = 0 => tick_label = "0.0%")
        /\ (tick = 500000 => tick_label = "0.5%")
        /\ (tick = 1000000 => tick_label = "1.0%")
        /\ (tick = 900000 => tick_label = "0.9%")
        /\ (tick = 950000 => tick_label = "0.9%")
        /\ (tick = 90000000 => tick_label = "90.0%")
        /\ (tick = 95000000 => tick_label = "95.0%")
        /\ (tick = 100000000 => tick_label = "100.0%")

\* C3 witness: the temperature axis has drawn the label of the raw value 90e4.
C3_Witness ==
    /\ tick_axis = "twin"
    /\ tick = 900000
    /\ tick_label = "0.9%"

\* C4 (as claimed): if an input file exists but lacks a column, the run, once
\* ended, has failed with a KeyError raised while processing that very
\* scenario, and the output file is not written.
C4_Original ==
    \A i \in Scenarios :
        LacksColumn(i) =>
            /\ pc \notin {"describe", "savefig", "close", "done"}
            /\ OutputUntouched
            /\ (Terminated => err = "KeyError" /\ idx = i)

\* C4 (amended): if an input file exists but lacks a column, the run never
\* gets past the loop, ends as a failure and does not write the output file,
\* and no later scenario is read or drawn; if the run got as far as reading
\* that file, the failure is a KeyError raised while processing that scenario.
C4_Amended ==
    \A i \in Scenarios :
        LacksColumn(i) =>
            /\ pc \notin {"describe", "savefig", "close", "done"}
            /\ OutputUntouched
            /\ \A j \in Scenarios : j > i =>
                  /\ reads[j] = 0
                  /\ (fig # NoFigure => fig.axes[j] = EmptyAxes(j))
            /\ (Terminated /\ reads[i] > 0 => pc = "failed" /\ err = "KeyError" /\ idx = i)

\* C4 witness: the run failed with a KeyError in scenario 3, whose file lacks
\* prev_temp, after two scenarios were drawn.
C4_Witness ==
    /\ pc = "failed"
    /\ err = "KeyError"
    /\ idx = 3
    /\ fs[InputFile(3)] = DropColumn(SampleA, "prev_temp")
    /\ reads[3] = 1
    /\ Len(fig.axes[3].lines) = 1

\* Scenario i's read_csv call has been made in this run.
Reached(i) ==
    \/ pc \in {"describe", "savefig", "close", "done"}
    \/ idx > i
    \/ idx = i /\ pc # "read_csv"

\* C5: within a run, every file but cultivation_scenarios.png keeps the
\* content it had when the run started and is never written; the output file
\* is written at most once (exactly once by the time the run has succeeded,
\* and then holds the new image whatever it held before); each input file is
\* read at most once, and exactly once when the run has reached its scenario.
C5_OnlyOutputWritten ==
    /\ \A f \in FileNames \ {"cultivation_scenarios.png"} :
          fs[f] = fs0[f] /\ writes[f] = 0
    /\ writes["cultivation_scenarios.png"] <= 1
    /\ writes["cultivation_scenarios.png"] = IF pc \in {"close", "done"} THEN 1 ELSE 0
    /\ (pc \in {"close", "done"} =>
          /\ fs["cultivation_scenarios.png"].kind = "png"
          /\ fs["cultivation_scenarios.png"].figure # NoFigure)
    /\ (pc \notin {"close", "done"} => fs = fs0)
    /\ \A i \in Scenarios : reads[i] = IF Reached(i) THEN 1 ELSE 0

\* C5 witness: a first run has succeeded over an older image.
C5_Witness ==
    /\ pc = "done"
    /\ run = 1
    /\ fs0[OutputFile] = OldPng
    /\ writes[OutputFile] = 1

\* The chart of scenario i as the loop body draws it from content.
ChartOf(i, content) ==
    LET drawn == Decorate(PlotTwin(PlotPrimary(EmptyAxes(i), Line1(content)), Line2(content)),
                          scenarios[i].title)
    IN  [drawn EXCEPT !.ylim = YLimPrimary(content.columns["cultivation_factor"]),
                      !.twin_ylim = YLimTwin(content.columns["prev_temp"])]

\* The image of a successful run, as a function of the four input files alone.
ImageOf(dir) ==
    Png([ created  |-> TRUE,
          suptitle |-> "Cultivation Factor and Temperature Scenarios",
          axes     |-> [i \in Scenarios |-> ChartOf(i, dir[InputFile(i)])],
          desc_ax  |-> [text |-> desc_text, axis |-> "off"] ])

\* C6: a successful run leaves in cultivation_scenarios.png the image that is
\* a function of the four input files alone, whatever the file held before;
\* and a run made after another one, on the directory that one left, ends as
\* that one ended and leaves the directory exactly as it found it.
C6_Idempotent ==
    /\ (pc = "done" => fs[OutputFile] = ImageOf(fs))
    /\ (run >= 2 /\ Terminated => pc = exit0 /\ fs = fs0)

\* C6 witness: a second run has succeeded after a successful first one.
C6_Witness ==
    /\ run = 2
    /\ pc = "done"
    /\ exit0 = "done"
    /\ fs0[OutputFile].kind = "png"

\* C7: after a successful run the saved figure has, for every scenario i, on
\* the i-th chart of the 2x2 grid in row-major order, exactly one
\* cultivation_factor series on the primary axis and one prev_temp series on
\* the twin axis, both from scenario i's own CSV in row order, and the
\* percentage formatter on both y-axes.
C7_SubplotsMatchScenarios ==
    pc = "done" =>
        LET saved == fs[OutputFile].figure
            grid == << <<0, 0>>, <<0, 1>>, <<1, 0>>, <<1, 1>> >>
        IN  /\ DOMAIN saved.axes = 1..4
            /\ \A i \in 1..4 :
                  /\ saved.axes[i].gridpos = grid[i]
                  /\ saved.axes[i].title = scenarios[i].title
                  /\ Complete(saved.axes[i], fs[InputFile(i)])

\* C7 witness: a run has succeeded on four files that are not all alike.
C7_Witness ==
    /\ pc = "done"
    /\ fs[InputFile(1)] = SampleA
    /\ fs[InputFile(2)] = SampleB
    /\ fs[InputFile(3)] = SampleC
    /\ fs[InputFile(4)] = SampleA

\* C8: the file of scenario k is read only when the charts of scenarios
\* 1..k-1 are completely drawn, limits included; once a run has failed in
\* scenario k, no later file has been read and no later chart drawn; and the
\* output file is written only from a figure whose four charts are complete
\* and whose description panel is rendered.
C8_StrictOrder ==
    /\ \A k \in Scenarios : reads[k] > 0 =>
          \A j \in 1..(k - 1) :
              /\ reads[j] = 1
              /\ (fig # NoFigure => Complete(fig.axes[j], fs[InputFile(j)]))
    /\ (pc = "failed" =>
          \A j \in Scenarios : j > idx =>
              /\ reads[j] = 0
              /\ fig.axes[j] = EmptyAxes(j))
    /\ (pc \in {"savefig", "close", "done"} \/ writes[OutputFile] > 0 =>
          LET f == IF pc = "savefig" THEN fig ELSE fs[OutputFile].figure
          IN  /\ \A j \in Scenarios :
                    /\ reads[j] = 1
                    /\ Complete(f.axes[j], fs[InputFile(j)])
              /\ f.desc_ax = [text |-> desc_text, axis |-> "off"])

\* C8 witness: a run failed in scenario 3 after drawing scenarios 1 and 2.
C8_Witness ==
    /\ pc = "failed"
    /\ idx = 3
    /\ reads = <<1, 1, 1, 0>>
    /\ Complete(fig.axes[2], fs[InputFile(2)])

\* C9: when a run has aborted, whatever the exception, the output file holds
\* what it held before the run.
C9_AbortKeepsOldOutput ==
    pc = "failed" => fs[OutputFile] = fs0[OutputFile] /\ writes[OutputFile] = 0

\* C9 witness: a run over an older image has aborted while computing the
\* axis limits of a CSV without rows.
C9_Witness ==
    /\ pc = "failed"
    /\ err = "ValueError"
    /\ fs0[OutputFile] = OldPng
    /\ fs[OutputFile] = OldPng

\* The largest and the smallest value of a non-empty column.
Largest(s) == CHOOSE v \in Range(s) : \A w \in Range(s) : w <= v

Smallest(s) == CHOOSE v \in Range(s) : \A w \in Range(s) : v <= w

\* C10: for a dataset with at least one row and no negative cultivation_factor
\* or prev_temp value, once the limits of its chart are set, the primary axis
\* is [0, 1.1 * max(cultivation_factor)], the twin axis is [0.99 *
\* min(prev_temp), 1.01 * max(prev_temp)], neither lower limit exceeds its
\* upper limit, and every plotted point lies within the limits of its axis
\* (limits in hundredths).
C10_LimitsEncloseData ==
    \A i \in Scenarios :
        LET data == fs[InputFile(i)] IN
        ( /\ fig # NoFigure
          /\ ~fig.axes[i].ylim.auto
          /\ NRows(data) >= 1
          /\ \A v \in Range(data.columns["cultivation_factor"])
                       \cup Range(data.columns["prev_temp"]) : v >= 0 )
        =>
        LET ax == fig.axes[i] IN
        /\ ax.ylim.lo = 0
        /\ 10 * ax.ylim.hi = 11 * 100 * Largest(data.columns["cultivation_factor"])
        /\ 100 * ax.twin_ylim.lo = 99 * 100 * Smallest(data.columns["prev_temp"])
        /\ 100 * ax.twin_ylim.hi = 101 * 100 * Largest(data.columns["prev_temp"])
        /\ ax.ylim.lo <= ax.ylim.hi
        /\ ax.twin_ylim.lo <= ax.twin_ylim.hi
        /\ \A l \in Range(ax.lines) : \A y \in Range(l.ys) :
              ax.ylim.lo <= 100 * y /\ 100 * y <= ax.ylim.hi
        /\ \A l \in Range(ax.twin_lines) : \A y \in Range(l.ys) :
              ax.twin_ylim.lo <= 100 * y /\ 100 * y <= ax.twin_ylim.hi

\* C10 witness: the limits of a chart are set for two rows of non-negative,
\* differing values.
C10_Witness ==
    \E i \in Scenarios :
        /\ fig # NoFigure
        /\ ~fig.axes[i].ylim.auto
        /\ fs[InputFile(i)].columns["cultivation_factor"] = <<0, MaxVal>>
        /\ fs[InputFile(i)].columns["prev_temp"] = <<MaxVal, 1>>
        /\ fig.axes[i].ylim.hi > 100 * MaxVal
        /\ fig.axes[i].twin_ylim.lo < 100

====
